---- MODULE Spec2Model ----
(***************************************************************************)
(* The security router of learning_fastapi (routers/security.py): password *)
(* hashing and verification through passlib's bcrypt context, JWT issuance *)
(* and validation through python-jose, and the dependency chain            *)
(* get_current_user -> get_current_active_user behind the protected        *)
(* endpoints.                                                              *)
(*                                                                         *)
(* The specifications of the module:                                       *)
(*   Spec      the running server: the clock, logins, token requests;      *)
(*   SpecPwd   calls of get_password_hash / verify_password;               *)
(*   SpecSalt  get_password_hash called twice on one password;             *)
(*   SpecAuth  calls of authenticate_user on arbitrary stores;             *)
(*   SpecStore the running server beside a writer of the credential store; *)
(*   SpecConc  two requests handled concurrently, one statement at a time; *)
(*   SpecSql   the /sql endpoints (routers/sql.py), one request at a time; *)
(*   SpecDb    two /sql requests handled concurrently, with their sessions;*)
(*   SpecItems PUT and PATCH on the in-memory item store                   *)
(*             (routers/items_db.py).                                      *)
(***************************************************************************)
EXTENDS Integers, Sequences, FiniteSets, TLC

VARIABLES
    now,            \* the clock datetime.utcnow() reads, in whole minutes
    fake_users_db,  \* the credential store: username -> record
    client_token,   \* the token the client got from its latest successful login
    issued_at,      \* the clock value at which client_token was issued
    resp,           \* the exchange handled at the current instant (Idle: none)
    pw_plain,       \* SpecPwd: the argument of the latest get_password_hash
    pw_hashed,      \* SpecPwd: its outcome
    pw_hashed2,     \* SpecSalt: the outcome of a second call on the same argument
    pw_salts,       \* SpecSalt: the salts of the hashes the two calls returned
    pw_try,         \* SpecPwd: the plaintext of the latest verify_password
    pw_against,     \* SpecPwd: the hash it was verified against
    pw_verified,    \* SpecPwd: its outcome
    auth_db,        \* SpecAuth: the store handed to authenticate_user
    auth_call,      \* SpecAuth: the latest call and its outcome
    authorized_before,  \* SpecStore: a request has been authorized on client_token
    reqs,           \* SpecConc: the requests in flight, each with its own locals
    users,          \* sql: the rows of table users
    items,          \* sql: the rows of table items
    sql_resp,       \* SpecSql: the latest exchange with a /sql endpoint
    sql_before,     \* SpecSql: the two tables as that exchange found them
    sql_reqs,       \* SpecDb: the /sql requests in flight
    sessions,       \* SpecDb: per session SessionLocal() made, how often it was closed
    items_db        \* SpecItems: the in-memory item store, item_id -> dict

secVars == <<now, fake_users_db, client_token, issued_at, resp>>
pwVars == <<pw_plain, pw_hashed, pw_hashed2, pw_salts, pw_try, pw_against, pw_verified>>
authVars == <<auth_db, auth_call>>
storeVars == <<authorized_before>>
concVars == <<reqs>>
sqlVars == <<users, items, sql_resp, sql_before>>
dbVars == <<sql_reqs, sessions>>
itemVars == <<items_db>>
vars == <<secVars, pwVars, authVars, storeVars, concVars, sqlVars, dbVars, itemVars>>

\* what the steps of one part of the model leave alone
nonSecVars == <<pwVars, authVars, storeVars, concVars, sqlVars, dbVars, itemVars>>
nonPwVars == <<secVars, authVars, storeVars, concVars, sqlVars, dbVars, itemVars>>
nonSqlVars == <<secVars, pwVars, authVars, storeVars, concVars, dbVars, itemVars>>
nonItemVars == <<secVars, pwVars, authVars, storeVars, concVars, sqlVars, dbVars>>
nonSecurityVars == <<pwVars, authVars, sqlVars, dbVars, itemVars>>
nonSqlDbVars == <<secVars, pwVars, authVars, storeVars, concVars, itemVars>>

-----------------------------------------------------------------------------
(* Bounds of the model.                                                    *)

\* The clock runs from 0 to MaxTime minutes.
MaxTime == 31
\* The longest tail of a modelled password (see Passwords).
MaxTail == 2

-----------------------------------------------------------------------------
(* Configuration.                                                          *)

SECRET_KEY == "09d25e094faa6ca2556c818166b7a9563b93f7099f6f0f4caa6cf63b88e8d3e7"
ACCESS_TOKEN_EXPIRE_MINUTES == 30

\* A signing key that is not the server's.
OtherKey == "not-the-server-key"

-----------------------------------------------------------------------------
(* Passwords.  A password is the byte string  "a"^pad ++ tail  where tail  *)
(* holds no "a": every such string has one representation, and strings of *)
(* 72 and of 4096 bytes and more are within reach of the model checker.    *)

\* bcrypt reads the first 72 bytes of the secret (passlib bcrypt.truncate_size).
BcryptTruncateSize == 72
\* passlib refuses secrets longer than this (passlib.utils.handlers.MAX_PASSWORD_SIZE).
MaxPasswordSize == 4096

TailChars == {"b", "NUL"}

RECURSIVE SeqsUpTo(_, _)
SeqsUpTo(S, n) ==
    IF n = 0 THEN {<<>>}
    ELSE LET shorter == SeqsUpTo(S, n - 1)
         IN  shorter \cup {Append(s, c) : s \in shorter, c \in S}

PadLens == {0, BcryptTruncateSize - 1, BcryptTruncateSize,
            MaxPasswordSize - 1, MaxPasswordSize}

\* johndoe's and alice's password: the plaintext of the hash in fake_users_db.
SecretPassword == [pad |-> 0, tail |-> <<"s", "e", "c", "r", "e", "t">>]

Passwords ==
    {[pad |-> n, tail |-> t] : n \in PadLens, t \in SeqsUpTo(TailChars, MaxTail)}
        \cup {SecretPassword}

PwLen(p) == p.pad + Len(p.tail)

HasNul(p) == \E i \in 1..Len(p.tail) : p.tail[i] = "NUL"

Min(a, b) == IF a <= b THEN a ELSE b

\* secret[:72]: what bcrypt's key schedule reads of the secret.
BcryptKey(p) ==
    IF p.pad >= BcryptTruncateSize
    THEN [pad |-> BcryptTruncateSize, tail |-> <<>>]
    ELSE [pad |-> p.pad,
          tail |-> SubSeq(p.tail, 1, Min(Len(p.tail), BcryptTruncateSize - p.pad))]

-----------------------------------------------------------------------------
(* Hash strings.  "$2b$12$<22 chars of salt><31 chars of checksum>" is     *)
(* [ident, intact, salt, checksum]; the checksum of bcrypt is a function   *)
(* of the salt and of the first 72 bytes of the secret, modelled as that   *)
(* pair (no collisions).  A string of another shape has ident "" (nothing  *)
(* the context identifies) or ident "$2b$" and intact FALSE (a bcrypt      *)
(* prefix followed by something that does not parse).                      *)

Salts == {"EixZaYVK1fsbw1ZfbX3OXe", "N9qo8uLOickgx2ZMRZoMye"}

BcryptHash(p, salt) ==
    [ident |-> "$2b$", intact |-> TRUE, salt |-> salt, checksum |-> BcryptKey(p)]

EmptyPassword == [pad |-> 0, tail |-> <<>>]

\* A stored string that is no hash at all (for instance a plaintext password).
PlainTextHash == [ident |-> "", intact |-> FALSE, salt |-> "", checksum |-> EmptyPassword]
\* A stored string that starts like a bcrypt hash and is cut short.
CutBcryptHash == [ident |-> "$2b$", intact |-> FALSE, salt |-> "", checksum |-> EmptyPassword]

MalformedHashes == {PlainTextHash, CutBcryptHash}

\* "$2b$12$EixZaYVK1fsbw1ZfbX3OXePaWxn96p36WQoeG6Lruj3vjPGga31lW"
JohndoeHash == BcryptHash(SecretPassword, "EixZaYVK1fsbw1ZfbX3OXe")

NoHash == [ident |-> "", intact |-> FALSE, salt |-> "<none>", checksum |-> EmptyPassword]

\* pwd_context.verify(secret, hash) of CryptContext(schemes=["bcrypt"]): the
\* name of the exception it raises, or "True" / "False".
pwd_context_verify(secret, hash) ==
    IF hash.ident # "$2b$" THEN "UnknownHashError"
    ELSE IF PwLen(secret) > MaxPasswordSize THEN "PasswordSizeError"
    ELSE IF ~hash.intact THEN "ValueError"
    ELSE IF HasNul(secret) THEN "NullPasswordError"
    ELSE IF BcryptHash(secret, hash.salt).checksum = hash.checksum
         THEN "True" ELSE "False"

\* pwd_context.hash with a salt fixed in the configuration
pwd_context_hash_fixed_salt(secret, salt) ==
    IF PwLen(secret) > MaxPasswordSize
    THEN [raised |-> "PasswordSizeError", hash |-> NoHash]
    ELSE IF HasNul(secret)
    THEN [raised |-> "NullPasswordError", hash |-> NoHash]
    ELSE [raised |-> "", hash |-> BcryptHash(secret, "EixZaYVK1fsbw1ZfbX3OXe")]

\* pwd_context.hash(secret) with the salt the call generates.
pwd_context_hash(secret, salt) ==
    IF PwLen(secret) > MaxPasswordSize
    THEN [raised |-> "PasswordSizeError", hash |-> NoHash]
    ELSE IF HasNul(secret)
    THEN [raised |-> "NullPasswordError", hash |-> NoHash]
    ELSE [raised |-> "", hash |-> BcryptHash(secret, salt)]

\* verify_password written as a comparison of a fresh hash of the plaintext
\* with the stored string
verify_password_rehash(plain_password, hashed_password) ==
    LET fresh == pwd_context_hash(plain_password,
                     CHOOSE s \in Salts : s # hashed_password.salt)
    IN  IF fresh.raised # "" THEN fresh.raised
        ELSE IF fresh.hash = hashed_password THEN "True" ELSE "False"

verify_password(plain_password, hashed_password) ==
    pwd_context_verify(plain_password, hashed_password)

get_password_hash(password, salt) == pwd_context_hash(password, salt)

Raised(outcome) == outcome \notin {"True", "False"}

-----------------------------------------------------------------------------
(* SpecPwd: calls of the two password functions.                           *)

NotCalled == "<not called>"

PwdIdle ==
    /\ pw_plain = EmptyPassword
    /\ pw_hashed = [raised |-> NotCalled, hash |-> NoHash]
    /\ pw_hashed2 = [raised |-> NotCalled, hash |-> NoHash]
    /\ pw_salts = <<"", "">>
    /\ pw_try = EmptyPassword
    /\ pw_against = NoHash
    /\ pw_verified = NotCalled

\* hash = get_password_hash(password)
GetPasswordHash(password) ==
    /\ \E salt \in Salts :
          /\ pw_hashed' = get_password_hash(password, salt)
          /\ pw_salts' = <<IF pw_hashed'.raised = "" THEN salt ELSE "", "">>
    /\ pw_hashed2' = [raised |-> NotCalled, hash |-> NoHash]
    /\ pw_plain' = password
    /\ pw_try' = EmptyPassword
    /\ pw_against' = NoHash
    /\ pw_verified' = NotCalled
    /\ UNCHANGED nonPwVars

\* hash2 = get_password_hash(password): a second call on the same argument
GetPasswordHashAgain ==
    /\ pw_hashed.raised # NotCalled
    /\ pw_hashed2.raised = NotCalled
    /\ \E salt \in Salts :
          /\ pw_hashed2' = get_password_hash(pw_plain, salt)
          /\ pw_salts' = <<pw_salts[1], IF pw_hashed2'.raised = "" THEN salt ELSE "">>
    /\ pw_try' = EmptyPassword
    /\ pw_against' = NoHash
    /\ pw_verified' = NotCalled
    /\ UNCHANGED <<pw_plain, pw_hashed>>
    /\ UNCHANGED nonPwVars

\* verify_password(plain, hash) on the hash the latest get_password_hash returned
VerifyHashed(plain) ==
    /\ pw_hashed.raised = ""
    /\ pw_try' = plain
    /\ pw_against' = pw_hashed.hash
    /\ pw_verified' = verify_password(plain, pw_hashed.hash)
    /\ UNCHANGED <<pw_plain, pw_hashed, pw_hashed2, pw_salts>>
    /\ UNCHANGED nonPwVars

\* verify_password(plain, hash2) on the hash the second call returned
VerifyHashedAgain(plain) ==
    /\ pw_hashed2.raised = ""
    /\ pw_try' = plain
    /\ pw_against' = pw_hashed2.hash
    /\ pw_verified' = verify_password(plain, pw_hashed2.hash)
    /\ UNCHANGED <<pw_plain, pw_hashed, pw_hashed2, pw_salts>>
    /\ UNCHANGED nonPwVars

\* verify_password(plain, stored) on a string read from a store
VerifyStored(plain, stored) ==
    /\ pw_try' = plain
    /\ pw_against' = stored
    /\ pw_verified' = verify_password(plain, stored)
    /\ UNCHANGED <<pw_plain, pw_hashed, pw_hashed2, pw_salts>>
    /\ UNCHANGED nonPwVars

StoredStrings == MalformedHashes \cup {JohndoeHash}

-----------------------------------------------------------------------------
(* The credential store.                                                   *)

fake_users_db_initial ==
    [u \in {"johndoe", "alice"} |->
        IF u = "johndoe"
        THEN [username |-> "johndoe", full_name |-> "John Doe",
              email |-> "johndoe@example.com",
              hashed_password |-> JohndoeHash, disabled |-> FALSE]
        ELSE [username |-> "alice", full_name |-> "Alice",
              email |-> "alice@example.com",
              hashed_password |-> JohndoeHash, disabled |-> TRUE]]

\* The usernames a request may name: the two accounts and one that has none.
Usernames == {"johndoe", "alice", "nobody"}

\* Python's None, where a UserInDB is expected.
None ==
    [username |-> "<None>", full_name |-> "", email |-> "",
     hashed_password |-> NoHash, disabled |-> FALSE]

\* UserInDB(**user_dict)
UserInDB(user_dict) ==
    [username |-> user_dict.username, email |-> user_dict.email,
     full_name |-> user_dict.full_name, disabled |-> user_dict.disabled,
     hashed_password |-> user_dict.hashed_password]

\* response_model=User: the fields of User, hashed_password left out
User(user) ==
    [username |-> user.username, email |-> user.email,
     full_name |-> user.full_name, disabled |-> user.disabled]

\* get_user answering from a copy of the store taken when the module loaded
get_user_snapshot(db, username) ==
    IF username \in DOMAIN fake_users_db_initial
    THEN UserInDB(fake_users_db_initial[username])
    ELSE None

get_user(db, username) ==
    IF username \in DOMAIN db THEN UserInDB(db[username]) ELSE None

\* get_user taking the entry out of the store (db.pop(username))
store_after_get_user_pop(db, username) ==
    [u \in DOMAIN db \ {username} |-> db[u]]

\* The store after get_user(db, username): db[username] is read and its
\* fields are copied into a new UserInDB; db is not assigned to.
store_after_get_user(db, username) == db

\* The store after authenticate_user: its one access is get_user.
store_after_authenticate_user(fake_db, username, password) ==
    store_after_get_user(fake_db, username)

\* authenticate_user refusing a disabled account
authenticate_user_active_only(fake_db, username, password) ==
    LET user == get_user(fake_db, username)
        verified == verify_password(password, user.hashed_password)
    IN  IF user = None
        THEN [raised |-> "", ok |-> FALSE, user |-> None]
        ELSE IF Raised(verified)
        THEN [raised |-> verified, ok |-> FALSE, user |-> None]
        ELSE IF verified = "False" \/ user.disabled
        THEN [raised |-> "", ok |-> FALSE, user |-> None]
        ELSE [raised |-> "", ok |-> TRUE, user |-> user]

\* The outcome of authenticate_user: the user, False, or the exception that
\* verify_password raised and authenticate_user does not catch.
authenticate_user(fake_db, username, password) ==
    LET user == get_user(fake_db, username)
        verified == verify_password(password, user.hashed_password)
    IN  IF user = None
        THEN [raised |-> "", ok |-> FALSE, user |-> None]
        ELSE IF Raised(verified)
        THEN [raised |-> verified, ok |-> FALSE, user |-> None]
        ELSE IF verified = "False"
        THEN [raised |-> "", ok |-> FALSE, user |-> None]
        ELSE [raised |-> "", ok |-> TRUE, user |-> user]

-----------------------------------------------------------------------------
(* JSON Web Tokens.  A token string is [form, key, sub, exp]: a compact    *)
(* JWS signed with key over the claims sub and exp, or a string that does  *)
(* not decode (form "garbage").  exp is seconds since the epoch.           *)

SecondsPerMinute == 60

\* timegm(t.utctimetuple()) of a datetime t given in minutes
timegm(t) == t * SecondsPerMinute

\* a claim the payload does not hold
NoSub == "<no sub>"
NoExp == -1

NoToken == [form |-> "<none>", key |-> "", sub |-> NoSub, exp |-> NoExp]
GarbageToken == [form |-> "garbage", key |-> "", sub |-> NoSub, exp |-> NoExp]

\* jwt.encode(data, key, algorithm="HS256"): a datetime exp is stored as
\* its timegm
jwt_encode(sub, expire, key) ==
    [form |-> "jws", key |-> key, sub |-> sub, exp |-> timegm(expire)]

\* jwt.decode with options={"verify_signature": False}
jwt_decode_unverified(token, key, t) ==
    IF token.form # "jws"
    THEN [error |-> "Malformed", sub |-> NoSub]
    ELSE IF token.exp # NoExp /\ token.exp < timegm(t)
    THEN [error |-> "Expired", sub |-> NoSub]
    ELSE [error |-> "", sub |-> token.sub]

\* jwt.decode(token, key, algorithms=["HS256"]) at clock t: the error it
\* raises (every one a JWTError) or "" and the payload
jwt_decode(token, key, t) ==
    IF token.form # "jws"
    THEN [error |-> "Malformed", sub |-> NoSub]
    ELSE IF token.key # key
    THEN [error |-> "BadSignature", sub |-> NoSub]
    ELSE IF token.exp # NoExp /\ token.exp < timegm(t)
    THEN [error |-> "Expired", sub |-> NoSub]
    ELSE [error |-> "", sub |-> token.sub]

\* create_access_token with the timedelta left out of expire
create_access_token_no_ttl(username, utcnow) ==
    jwt_encode(username, utcnow, SECRET_KEY)

create_access_token(username, utcnow) ==
    jwt_encode(username, utcnow + ACCESS_TOKEN_EXPIRE_MINUTES, SECRET_KEY)

-----------------------------------------------------------------------------
(* The Principal Resolver.                                                 *)

NoException == [status_code |-> 0, detail |-> "", headers |-> ""]

credentials_exception ==
    [status_code |-> 401, detail |-> "Could not validate credentials",
     headers |-> "WWW-Authenticate: Bearer"]

inactive_exception ==
    [status_code |-> 400, detail |-> "Inactive user", headers |-> ""]

NoLookup == "<no lookup>"

\* get_current_user answering an unknown subject with an error of its own
get_current_user_leaky(token, t, db) ==
    LET payload == jwt_decode(token, SECRET_KEY, t)
        username == payload.sub
        user == get_user(db, username)
    IN  IF payload.error # "" \/ username = NoSub
        THEN [exc |-> credentials_exception, user |-> None,
              jwt_error |-> payload.error, lookup |-> NoLookup]
        ELSE IF user = None
        THEN [exc |-> [status_code |-> 404, detail |-> "User not found",
                       headers |-> ""],
              user |-> None, jwt_error |-> "", lookup |-> username]
        ELSE [exc |-> NoException, user |-> user,
              jwt_error |-> "", lookup |-> username]

\* get_current_user looking the claimed subject up and refusing a disabled
\* account before the token is verified
get_current_user_disabled_first(token, t, db) ==
    LET payload == jwt_decode(token, SECRET_KEY, t)
        username == payload.sub
        user == get_user(db, username)
        claimed == get_user(db, token.sub)
    IN  IF token.form = "jws" /\ claimed # None /\ claimed.disabled
        THEN [exc |-> inactive_exception, user |-> None,
              jwt_error |-> payload.error, lookup |-> token.sub]
        ELSE IF payload.error # ""
        THEN [exc |-> credentials_exception, user |-> None,
              jwt_error |-> payload.error, lookup |-> NoLookup]
        ELSE IF username = NoSub
        THEN [exc |-> credentials_exception, user |-> None,
              jwt_error |-> "", lookup |-> NoLookup]
        ELSE IF user = None
        THEN [exc |-> credentials_exception, user |-> None,
              jwt_error |-> "", lookup |-> username]
        ELSE [exc |-> NoException, user |-> user,
              jwt_error |-> "", lookup |-> username]

\* The store after get_current_user: get_user is its one access, made only
\* with the subject of a token that decoded.
store_after_get_current_user(token, t, db) ==
    LET payload == jwt_decode(token, SECRET_KEY, t)
    IN  IF payload.error # "" \/ payload.sub = NoSub THEN db
        ELSE store_after_get_user(db, payload.sub)

\* get_current_user(token) at clock t over store db: the exception raised
\* or the user returned, with the error jwt.decode raised (jwt_error) and
\* the username get_user was called with (lookup).
get_current_user(token, t, db) ==
    LET payload == jwt_decode(token, SECRET_KEY, t)
        username == payload.sub
        user == get_user(db, username)
    IN  IF payload.error # ""
        THEN [exc |-> credentials_exception, user |-> None,
              jwt_error |-> payload.error, lookup |-> NoLookup]
        ELSE IF username = NoSub
        THEN [exc |-> credentials_exception, user |-> None,
              jwt_error |-> "", lookup |-> NoLookup]
        ELSE IF user = None
        THEN [exc |-> credentials_exception, user |-> None,
              jwt_error |-> "", lookup |-> username]
        ELSE [exc |-> NoException, user |-> user,
              jwt_error |-> "", lookup |-> username]

\* get_current_active_user without the disabled check
get_current_active_user_unchecked(current_user) == current_user

\* get_current_active_user raising the credentials exception for a disabled
\* account
get_current_active_user_401(current_user) ==
    IF current_user.exc # NoException THEN current_user
    ELSE IF current_user.user.disabled
    THEN [current_user EXCEPT !.exc = credentials_exception, !.user = None]
    ELSE current_user

\* get_current_active_user(current_user = Depends(get_current_user)): an
\* exception of the dependency ends the request before this body runs.
get_current_active_user(current_user) ==
    IF current_user.exc # NoException THEN current_user
    ELSE IF current_user.user.disabled
    THEN [current_user EXCEPT !.exc = inactive_exception, !.user = None]
    ELSE current_user

-----------------------------------------------------------------------------
(* The endpoints.  An exchange is the request (op and its inputs), the     *)
(* response (status_code, detail, headers and the body's fields) and what  *)
(* the resolver did on the way (principal, jwt_error, lookup).             *)

Idle ==
    [op |-> "idle", username |-> "", password |-> EmptyPassword, token |-> NoToken,
     status_code |-> 0, detail |-> "", headers |-> "",
     access_token |-> NoToken, token_type |-> "",
     body_user |-> User(None), owner |-> "",
     principal |-> None, jwt_error |-> "", lookup |-> NoLookup]

\* the response FastAPI makes of a raised HTTPException
HTTPExceptionResponse(exchange, exc) ==
    [exchange EXCEPT !.status_code = exc.status_code, !.detail = exc.detail,
                     !.headers = exc.headers]

\* the response to a request whose handler raised anything else
InternalServerError(exchange) ==
    [exchange EXCEPT !.status_code = 500, !.detail = "Internal Server Error"]

incorrect_login_exception ==
    [status_code |-> 401, detail |-> "Incorrect username or password",
     headers |-> "WWW-Authenticate: Bearer"]

\* POST /security/token
login_for_access_token(username, password, t, db) ==
    LET request == [Idle EXCEPT !.op = "login_for_access_token",
                                !.username = username, !.password = password]
        user == authenticate_user(db, username, password)
        access_token == create_access_token(user.user.username, t)
    IN  IF user.raised # "" THEN InternalServerError(request)
        ELSE IF ~user.ok THEN HTTPExceptionResponse(request, incorrect_login_exception)
        ELSE [request EXCEPT !.status_code = 200,
                             !.access_token = access_token, !.token_type = "bearer"]

\* the dependency chain of a protected endpoint, run on the presented token
Resolve(op, token, t, db) ==
    LET request == [Idle EXCEPT !.op = op, !.token = token]
        current_user == get_current_active_user(get_current_user(token, t, db))
        traced == [request EXCEPT !.jwt_error = current_user.jwt_error,
                                  !.lookup = current_user.lookup,
                                  !.principal = current_user.user]
    IN  IF current_user.exc # NoException
        THEN HTTPExceptionResponse(traced, current_user.exc)
        ELSE [traced EXCEPT !.status_code = 200]

\* GET /security/users/me/
read_users_me(token, t, db) ==
    LET r == Resolve("read_users_me", token, t, db)
    IN  IF r.status_code # 200 THEN r
        ELSE [r EXCEPT !.body_user = User(r.principal)]

\* GET /security/users/me/items/
read_own_items(token, t, db) ==
    LET r == Resolve("read_own_items", token, t, db)
    IN  IF r.status_code # 200 THEN r
        ELSE [r EXCEPT !.owner = r.principal.username]

-----------------------------------------------------------------------------
(* Spec: the running server.                                               *)

\* The passwords a login form submits: the right one, a wrong one, one
\* holding a NUL byte, one longer than passlib accepts.
LoginPasswords ==
    {SecretPassword,
     [pad |-> 0, tail |-> <<"b">>],
     [pad |-> 0, tail |-> <<"b", "NUL">>],
     [pad |-> MaxPasswordSize, tail |-> <<"b">>]}

\* The token strings a client can make up at clock t: one that does not
\* decode, and JWS tokens under either key, for each subject, with no exp
\* or an exp one second before, at, or one second after the clock.
CraftedTokens(t) ==
    {GarbageToken} \cup
    {[form |-> "jws", key |-> k, sub |-> s, exp |-> e] :
        k \in {SECRET_KEY, OtherKey},
        s \in Usernames \cup {NoSub},
        e \in ({timegm(t) - 1, timegm(t), timegm(t) + 1} \ {NoExp}) \cup {NoExp}}

PresentableTokens ==
    CraftedTokens(now) \cup (IF client_token = NoToken THEN {} ELSE {client_token})

\* the requests the server handles at the same time
Requests == {1, 2}

NoRequest ==
    [op |-> "idle", pc |-> "idle", username |-> "", password |-> EmptyPassword,
     token |-> NoToken, t |-> 0, sub |-> NoSub, user |-> None,
     overlapped |-> FALSE, out |-> Idle]

\* a row no query returned (Python's None)
NoRow == [id |-> 0, email |-> "", hashed_password |-> <<>>, is_active |-> FALSE]

\* the fields of schema User, for a response without one
NoUserBody == [id |-> 0, email |-> "", is_active |-> FALSE, items |-> {}]

SqlIdleResp ==
    [op |-> "idle", email |-> "", password |-> "", user_id |-> 0, title |-> "",
     status_code |-> 0, detail |-> "",
     body_user |-> NoUserBody, body_item |-> [id |-> 0, title |-> "", description |-> "",
                   owner_id |-> 0], body_list |-> {}]

NoSqlRequest ==
    [op |-> "idle", pc |-> "idle", email |-> "", password |-> "", user_id |-> 0,
     db |-> 0, raised |-> FALSE, overlapped |-> FALSE, out |-> SqlIdleResp]

\* Field values: a str | None field holds a string or NoneStr, price holds
\* a number or NoneNum, numbers are written in tenths (50.2 is 502; the int
\* 62 and the float 62.0 are both 620), tags is a sequence of strings.
NoneStr == "<None>"
NoneNum == -1

\* the module-level dict items_db as written in the source
items_db_initial ==
    [foo |-> [name |-> "Foo", price |-> 502],
     bar |-> [name |-> "Bar", description |-> "The bartenders", price |-> 620,
              tax |-> 202],
     baz |-> [name |-> "Baz", description |-> NoneStr, price |-> 502,
              tax |-> 105, tags |-> <<>>]]

\* Nothing has been requested: no token presented, no request in flight,
\* the tables as Base.metadata.create_all makes them (empty), no session
\* made, items_db as the module defines it.
RoutersIdle ==
    /\ authorized_before = FALSE
    /\ reqs = [r \in {} |-> NoRequest]
    /\ users = {}
    /\ items = {}
    /\ sql_resp = SqlIdleResp
    /\ sql_before = [users |-> {}, items |-> {}]
    /\ sql_reqs = [r \in {} |-> NoSqlRequest]
    /\ sessions = <<>>
    /\ items_db = items_db_initial

AuthIdle ==
    /\ auth_db = fake_users_db_initial
    /\ auth_call = [username |-> "", password |-> EmptyPassword,
                    raised |-> NotCalled, ok |-> FALSE, user |-> None]

Init ==
    /\ now = 0
    /\ fake_users_db = fake_users_db_initial
    /\ client_token = NoToken
    /\ issued_at = 0
    /\ resp = Idle
    /\ PwdIdle
    /\ AuthIdle
    /\ RoutersIdle

\* time passes: the exchange of the instant before is over
Tick ==
    /\ now < MaxTime
    /\ now' = now + 1
    /\ resp' = Idle
    /\ UNCHANGED <<fake_users_db, client_token, issued_at>>
    /\ UNCHANGED nonSecVars

\* a client posts the login form and keeps the token of a 200 response
Login(username, password) ==
    /\ resp' = login_for_access_token(username, password, now, fake_users_db)
    /\ fake_users_db' = store_after_authenticate_user(fake_users_db, username, password)
    /\ IF resp'.status_code = 200
       THEN client_token' = resp'.access_token /\ issued_at' = now
       ELSE UNCHANGED <<client_token, issued_at>>
    /\ UNCHANGED now
    /\ UNCHANGED nonSecVars

ReadUsersMe(token) ==
    /\ resp' = read_users_me(token, now, fake_users_db)
    /\ fake_users_db' = store_after_get_current_user(token, now, fake_users_db)
    /\ UNCHANGED <<now, client_token, issued_at>>
    /\ UNCHANGED nonSecVars

ReadOwnItems(token) ==
    /\ resp' = read_own_items(token, now, fake_users_db)
    /\ fake_users_db' = store_after_get_current_user(token, now, fake_users_db)
    /\ UNCHANGED <<now, client_token, issued_at>>
    /\ UNCHANGED nonSecVars

Next ==
    \/ Tick
    \/ \E u \in Usernames, p \in LoginPasswords : Login(u, p)
    \/ \E token \in PresentableTokens : ReadUsersMe(token)
    \/ \E token \in PresentableTokens : ReadOwnItems(token)

Spec == Init /\ [][Next]_vars

-----------------------------------------------------------------------------
(* SpecPwd.                                                                *)

InitPwd == Init

NextPwd ==
    \/ \E p \in Passwords : GetPasswordHash(p)
    \/ \E p \in Passwords : VerifyHashed(p)
    \/ \E p \in Passwords, h \in StoredStrings : VerifyStored(p, h)

SpecPwd == InitPwd /\ [][NextPwd]_vars

-----------------------------------------------------------------------------
(* SpecSalt: a password hashed twice and verified against both hashes.     *)

NextSalt ==
    \/ \E p \in Passwords : GetPasswordHash(p)
    \/ GetPasswordHashAgain
    \/ VerifyHashed(pw_plain)
    \/ VerifyHashedAgain(pw_plain)

SpecSalt == Init /\ [][NextSalt]_vars

-----------------------------------------------------------------------------
(* SpecAuth: authenticate_user on every store of two accounts whose        *)
(* stored hash is johndoe's or one of the malformed strings.               *)

StoreRecords(u) ==
    {[username |-> u, full_name |-> "", email |-> "",
      hashed_password |-> h, disabled |-> d] :
        h \in StoredStrings, d \in BOOLEAN}

Stores ==
    UNION {[names -> UNION {StoreRecords(u) : u \in names}] :
                names \in SUBSET {"johndoe", "alice"}}

WellKeyed(db) == \A u \in DOMAIN db : db[u].username = u

InitAuth ==
    /\ now = 0
    /\ fake_users_db = fake_users_db_initial
    /\ client_token = NoToken
    /\ issued_at = 0
    /\ resp = Idle
    /\ PwdIdle
    /\ RoutersIdle
    /\ auth_db \in {db \in Stores : WellKeyed(db)}
    /\ auth_call = [username |-> "", password |-> EmptyPassword,
                    raised |-> NotCalled, ok |-> FALSE, user |-> None]

AuthenticateUser(username, password) ==
    /\ auth_call' = [username |-> username, password |-> password] @@
                    authenticate_user(auth_db, username, password)
    /\ UNCHANGED auth_db
    /\ UNCHANGED <<secVars, pwVars, storeVars, concVars, sqlVars, dbVars, itemVars>>

NextAuth == \E u \in Usernames, p \in Passwords : AuthenticateUser(u, p)

SpecAuth == InitAuth /\ [][NextAuth]_vars

-----------------------------------------------------------------------------
(* SpecStore: the server beside a writer of the credential store.  The     *)
(* router holds no code that writes fake_users_db; the writer stands for   *)
(* the registration or administration flow that would set an account's     *)
(* disabled flag between two requests.  The client presents the token of   *)
(* its latest successful login.                                            *)

\* the writer sets the disabled flag of a stored account
SetDisabled(username, disabled) ==
    /\ username \in DOMAIN fake_users_db
    /\ fake_users_db[username].disabled # disabled
    /\ fake_users_db' = [fake_users_db EXCEPT ![username].disabled = disabled]
    /\ resp' = Idle
    /\ UNCHANGED <<now, client_token, issued_at, authorized_before>>
    /\ UNCHANGED <<concVars, nonSecurityVars>>

\* POST /security/token; a new token has not been presented yet
LoginIssued(username, password) ==
    /\ resp' = login_for_access_token(username, password, now, fake_users_db)
    /\ fake_users_db' = store_after_authenticate_user(fake_users_db, username, password)
    /\ IF resp'.status_code = 200
       THEN /\ client_token' = resp'.access_token
            /\ issued_at' = now
            /\ authorized_before' = FALSE
       ELSE UNCHANGED <<client_token, issued_at, authorized_before>>
    /\ UNCHANGED now
    /\ UNCHANGED <<concVars, nonSecurityVars>>

\* GET /security/users/me/ with the issued token
PresentIssuedMe ==
    /\ client_token # NoToken
    /\ resp' = read_users_me(client_token, now, fake_users_db)
    /\ fake_users_db' = store_after_get_current_user(client_token, now, fake_users_db)
    /\ authorized_before' = (authorized_before \/ resp'.status_code = 200)
    /\ UNCHANGED <<now, client_token, issued_at>>
    /\ UNCHANGED <<concVars, nonSecurityVars>>

\* GET /security/users/me/items/ with the issued token
PresentIssuedItems ==
    /\ client_token # NoToken
    /\ resp' = read_own_items(client_token, now, fake_users_db)
    /\ fake_users_db' = store_after_get_current_user(client_token, now, fake_users_db)
    /\ authorized_before' = (authorized_before \/ resp'.status_code = 200)
    /\ UNCHANGED <<now, client_token, issued_at>>
    /\ UNCHANGED <<concVars, nonSecurityVars>>

NextStore ==
    \/ Tick
    \/ \E u \in Usernames, disabled \in BOOLEAN : SetDisabled(u, disabled)
    \/ \E u \in Usernames, p \in LoginPasswords : LoginIssued(u, p)
    \/ PresentIssuedMe
    \/ PresentIssuedItems

SpecStore == Init /\ [][NextStore]_vars

-----------------------------------------------------------------------------
(* SpecConc: requests handled concurrently.  A request is a record of its  *)
(* inputs, the locals of its call frames (sub: username of                 *)
(* get_current_user; user: the UserInDB looked up; t: the clock value its  *)
(* one clock read returned) and its response (out).  A step is one         *)
(* statement of a handler or dependency; steps of different requests       *)
(* interleave freely, and the clock may advance between any two.           *)

\* The clock of SpecConc runs from 0 to ConcMaxTime minutes.
ConcMaxTime == 1

\* The tokens presented at clock t: one that does not decode, one signed
\* with another key, and server-signed ones for each subject and for none,
\* their exp at the clock (passed once the clock advances).
ConcTokens(t) ==
    {GarbageToken,
     [form |-> "jws", key |-> OtherKey, sub |-> "johndoe", exp |-> timegm(t) + 1]} \cup
    {[form |-> "jws", key |-> SECRET_KEY, sub |-> sub, exp |-> timegm(t)] :
        sub \in Usernames \cup {NoSub}}

\* The passwords of concurrent logins: the right one, a wrong one, and one
\* holding a NUL byte.
ConcPasswords == {p \in LoginPasswords : PwLen(p) <= MaxPasswordSize}

InFlight(r) == r.pc \notin {"idle", "done"}

\* request self arrives as r
NewRequest(rs, self, r) ==
    [o \in DOMAIN rs \cup {self} |-> IF o = self THEN r ELSE rs[o]]

\* the other requests in flight have seen a step of request self interleave
Mark(rs, self) ==
    [o \in DOMAIN rs |->
        IF o # self /\ InFlight(rs[o]) THEN [rs[o] EXCEPT !.overlapped = TRUE]
        ELSE rs[o]]

\* request self moves to r; nothing else of the server's state changes
StepTo(self, r) ==
    /\ reqs' = [Mark(reqs, self) EXCEPT ![self] = r]
    /\ UNCHANGED <<now, client_token, issued_at, resp>>
    /\ UNCHANGED <<storeVars, nonSecurityVars>>

Done(r, out) == [r EXCEPT !.pc = "done", !.out = out]

\* username read from a variable all requests share
request_username_shared(rs, self) ==
    LET decoded == {o \in DOMAIN rs : rs[o].sub # NoSub}
    IN  IF decoded = {} THEN rs[self].sub
        ELSE rs[CHOOSE o \in decoded : TRUE].sub

\* username: the local of this request's get_current_user call
request_username(rs, self) == rs[self].sub

\* a request reaches a protected endpoint
ArriveProtected(self, op, token) ==
    /\ self \notin DOMAIN reqs
    /\ reqs' = NewRequest(reqs, self,
                  [NoRequest EXCEPT !.op = op, !.pc = "decode", !.token = token,
                                    !.t = now,
                                    !.out = [Idle EXCEPT !.op = op, !.token = token]])
    /\ UNCHANGED secVars
    /\ UNCHANGED <<storeVars, nonSecurityVars>>

\* a login form reaches POST /security/token
ArriveLogin(self, username, password) ==
    /\ self \notin DOMAIN reqs
    /\ reqs' = NewRequest(reqs, self,
                  [NoRequest EXCEPT !.op = "login_for_access_token",
                                    !.pc = "auth_get_user",
                                    !.username = username, !.password = password,
                                    !.t = now,
                                    !.out = [Idle EXCEPT !.op = "login_for_access_token",
                                                         !.username = username,
                                                         !.password = password]])
    /\ UNCHANGED secVars
    /\ UNCHANGED <<storeVars, nonSecurityVars>>

\* get_current_user: payload = jwt.decode(...); username = payload.get("sub")
Decode(self) ==
    LET r == reqs[self]
        payload == jwt_decode(r.token, SECRET_KEY, now)
        read == [r EXCEPT !.t = now, !.out.jwt_error = payload.error]
    IN  /\ self \in DOMAIN reqs
        /\ r.pc = "decode"
        /\ UNCHANGED fake_users_db
        /\ IF payload.error # "" \/ payload.sub = NoSub
           THEN StepTo(self, Done(read, HTTPExceptionResponse(read.out, credentials_exception)))
           ELSE StepTo(self, [read EXCEPT !.pc = "get_user", !.sub = payload.sub])

\* get_current_user: user = get_user(fake_users_db, username=token_data.username)
GetUser(self) ==
    LET r == reqs[self]
        username == request_username(reqs, self)
        user == get_user(fake_users_db, username)
        looked == [r EXCEPT !.out.lookup = username]
    IN  /\ self \in DOMAIN reqs
        /\ r.pc = "get_user"
        /\ fake_users_db' = store_after_get_user(fake_users_db, username)
        /\ IF user = None
           THEN StepTo(self, Done(looked, HTTPExceptionResponse(looked.out, credentials_exception)))
           ELSE StepTo(self, [looked EXCEPT !.pc = "active", !.user = user])

\* get_current_active_user: if current_user.disabled: raise
CheckActive(self) ==
    LET r == reqs[self]
    IN  /\ self \in DOMAIN reqs
        /\ r.pc = "active"
        /\ UNCHANGED fake_users_db
        /\ IF r.user.disabled
           THEN StepTo(self, Done(r, HTTPExceptionResponse(r.out, inactive_exception)))
           ELSE StepTo(self, [r EXCEPT !.pc = "endpoint"])

\* read_users_me / read_own_items: the body of the endpoint
Endpoint(self) ==
    LET r == reqs[self]
        ok == [r.out EXCEPT !.status_code = 200, !.principal = r.user]
    IN  /\ self \in DOMAIN reqs
        /\ r.pc = "endpoint"
        /\ UNCHANGED fake_users_db
        /\ IF r.op = "read_users_me"
           THEN StepTo(self, Done(r, [ok EXCEPT !.body_user = User(r.user)]))
           ELSE StepTo(self, Done(r, [ok EXCEPT !.owner = r.user.username]))

\* authenticate_user: user = get_user(fake_db, username)
AuthGetUser(self) ==
    LET r == reqs[self]
        user == get_user(fake_users_db, r.username)
    IN  /\ self \in DOMAIN reqs
        /\ r.pc = "auth_get_user"
        /\ fake_users_db' = store_after_get_user(fake_users_db, r.username)
        /\ IF user = None
           THEN StepTo(self, Done(r, HTTPExceptionResponse(r.out, incorrect_login_exception)))
           ELSE StepTo(self, [r EXCEPT !.pc = "verify", !.user = user])

\* authenticate_user: if not verify_password(password, user.hashed_password)
Verify(self) ==
    LET r == reqs[self]
        verified == verify_password(r.password, r.user.hashed_password)
    IN  /\ self \in DOMAIN reqs
        /\ r.pc = "verify"
        /\ UNCHANGED fake_users_db
        /\ IF Raised(verified)
           THEN StepTo(self, Done(r, InternalServerError(r.out)))
           ELSE IF verified = "False"
           THEN StepTo(self, Done(r, HTTPExceptionResponse(r.out, incorrect_login_exception)))
           ELSE StepTo(self, [r EXCEPT !.pc = "create_token"])

\* login_for_access_token: access_token = create_access_token(...); return
CreateToken(self) ==
    LET r == reqs[self]
        access_token == create_access_token(r.user.username, now)
    IN  /\ self \in DOMAIN reqs
        /\ r.pc = "create_token"
        /\ UNCHANGED fake_users_db
        /\ StepTo(self, Done([r EXCEPT !.t = now],
                             [r.out EXCEPT !.status_code = 200,
                                           !.access_token = access_token,
                                           !.token_type = "bearer"]))

NextConc ==
    \/ now < ConcMaxTime /\ Tick
    \/ \E self \in Requests, op \in {"read_users_me", "read_own_items"},
          token \in ConcTokens(now) : ArriveProtected(self, op, token)
    \/ \E self \in Requests, u \in Usernames, p \in ConcPasswords :
          ArriveLogin(self, u, p)
    \/ \E self \in Requests : Decode(self)
    \/ \E self \in Requests : GetUser(self)
    \/ \E self \in Requests : CheckActive(self)
    \/ \E self \in Requests : Endpoint(self)
    \/ \E self \in Requests : AuthGetUser(self)
    \/ \E self \in Requests : Verify(self)
    \/ \E self \in Requests : CreateToken(self)

SpecConc == Init /\ [][NextConc]_vars

-----------------------------------------------------------------------------
(* The /sql router (routers/sql.py): tables users and items behind         *)
(* SQLAlchemy on SQLite.  A row of users is [id, email, hashed_password,   *)
(* is_active], a row of items [id, title, description, owner_id].  SQLite  *)
(* gives a new row of an INTEGER PRIMARY KEY table the id max(id) + 1, or  *)
(* 1 in an empty table, and does not enforce foreign keys unless the       *)
(* connection turns them on (the engine of the router does not).           *)

\* items holds at most MaxItems rows.
MaxItems == 2

Emails == {"test@test.com", "other@test.com"}
UserIds == {1, 2, 3}

\* limit: int = 100 of read_users and read_items
DefaultLimit == 100

\* the id SQLite assigns to the next row inserted into rows
NextRowId(rows) ==
    IF rows = {} THEN 1
    ELSE (CHOOSE m \in {r.id : r \in rows} : \A r \in rows : r.id <= m) + 1

\* db.query(DBUser).filter(DBUser.id == user_id).first()
sql_get_user(db_users, user_id) ==
    IF \E u \in db_users : u.id = user_id
    THEN CHOOSE u \in db_users : u.id = user_id
    ELSE NoRow

\* get_user_by_email finding no row whatever the table holds
get_user_by_email_blind(db_users, email) == NoRow

\* db.query(DBUser).filter(DBUser.email == email).first(): of the rows
\* with that email, the one of lowest id
get_user_by_email(db_users, email) ==
    LET found == {u \in db_users : u.email = email}
    IN  IF found = {} THEN NoRow
        ELSE CHOOSE u \in found : \A v \in found : u.id <= v.id

\* the rows of a table at positions skip+1 .. skip+limit in id order
Page(rows, skip, limit) ==
    {r \in rows :
        LET rank == Cardinality({q \in rows : q.id <= r.id})
        IN  rank > skip /\ rank <= skip + limit}

\* db.query(DBUser).offset(skip).limit(limit).all()
get_users(db_users, skip, limit) == Page(db_users, skip, limit)

\* db.query(DBItem).offset(skip).limit(limit).all()
get_items(db_items, skip, limit) == Page(db_items, skip, limit)

\* create_user: INSERT and commit, then refresh.  The unique index on
\* users.email makes the INSERT of a second row with a stored email fail
\* (IntegrityError), leaving the table as it was.
create_user(db_users, email, password) ==
    LET db_user == [id |-> NextRowId(db_users), email |-> email,
                    hashed_password |-> <<password, "notreallyhashed">>,
                    is_active |-> TRUE]
    IN  IF \E u \in db_users : u.email = email
        THEN [raised |-> "IntegrityError", users |-> db_users, db_user |-> NoRow]
        ELSE [raised |-> "", users |-> db_users \cup {db_user}, db_user |-> db_user]

\* create_user_item: INSERT and commit, then refresh; owner_id is stored as
\* given, whether or not users holds a row with that id.
create_user_item(db_items, title, description, user_id) ==
    LET db_item == [id |-> NextRowId(db_items), title |-> title,
                    description |-> description, owner_id |-> user_id]
    IN  [items |-> db_items \cup {db_item}, db_item |-> db_item]

\* schema User read from a row (orm_mode): id, email, is_active and items,
\* the relationship loading the rows of items whose owner_id is the row's
\* id, each read as schema Item (all four columns)
UserSchema(db_user, db_items) ==
    [id |-> db_user.id, email |-> db_user.email, is_active |-> db_user.is_active,
     items |-> {i \in db_items : i.owner_id = db_user.id}]

SqlHTTPException(request, status_code, detail) ==
    [request EXCEPT !.status_code = status_code, !.detail = detail]

\* POST /sql/users/: the response and the users table after it
create_user_(db_users, db_items, email, password) ==
    LET request == [SqlIdleResp EXCEPT !.op = "create_user_", !.email = email,
                                       !.password = password]
        db_user == get_user_by_email(db_users, email)
        created == create_user(db_users, email, password)
    IN  IF db_user # NoRow
        THEN [users |-> db_users,
              resp |-> SqlHTTPException(request, 400, "Email already registered")]
        ELSE IF created.raised # ""
        THEN [users |-> created.users,
              resp |-> SqlHTTPException(request, 500, "Internal Server Error")]
        ELSE [users |-> created.users,
              resp |-> [request EXCEPT !.status_code = 200,
                                       !.body_user = UserSchema(created.db_user, db_items)]]

\* GET /sql/users/
read_users(db_users, db_items, skip, limit) ==
    [SqlIdleResp EXCEPT !.op = "read_users", !.status_code = 200,
                        !.body_list = {UserSchema(u, db_items) :
                                          u \in get_users(db_users, skip, limit)}]

\* GET /sql/users/{user_id}
read_user(db_users, db_items, user_id) ==
    LET request == [SqlIdleResp EXCEPT !.op = "read_user", !.user_id = user_id]
        db_user == sql_get_user(db_users, user_id)
    IN  IF db_user = NoRow
        THEN SqlHTTPException(request, 404, "User not found")
        ELSE [request EXCEPT !.status_code = 200,
                             !.body_user = UserSchema(db_user, db_items)]

\* POST /sql/users/{user_id}/items/: the response and the items table after it
create_item_for_user(db_items, user_id, title, description) ==
    LET request == [SqlIdleResp EXCEPT !.op = "create_item_for_user",
                                       !.user_id = user_id, !.title = title]
        created == create_user_item(db_items, title, description, user_id)
    IN  [items |-> created.items,
         resp |-> [request EXCEPT !.status_code = 200,
                                  !.body_item = created.db_item]]

\* GET /sql/items/
read_items(db_items, skip, limit) ==
    [SqlIdleResp EXCEPT !.op = "read_items", !.status_code = 200,
                        !.body_list = get_items(db_items, skip, limit)]

CreateUser(email, password) ==
    LET r == create_user_(users, items, email, password)
    IN  /\ users' = r.users
        /\ sql_resp' = r.resp
        /\ sql_before' = [users |-> users, items |-> items]
        /\ UNCHANGED items
        /\ UNCHANGED nonSqlVars

ReadUsers(skip, limit) ==
    /\ sql_resp' = read_users(users, items, skip, limit)
    /\ sql_before' = [users |-> users, items |-> items]
    /\ UNCHANGED <<users, items>>
    /\ UNCHANGED nonSqlVars

ReadUser(user_id) ==
    /\ sql_resp' = read_user(users, items, user_id)
    /\ sql_before' = [users |-> users, items |-> items]
    /\ UNCHANGED <<users, items>>
    /\ UNCHANGED nonSqlVars

CreateItemForUser(user_id, title, description) ==
    LET r == create_item_for_user(items, user_id, title, description)
    IN  /\ Cardinality(items) < MaxItems
        /\ items' = r.items
        /\ sql_resp' = r.resp
        /\ sql_before' = [users |-> users, items |-> items]
        /\ UNCHANGED users
        /\ UNCHANGED nonSqlVars

ReadItems(skip, limit) ==
    /\ sql_resp' = read_items(items, skip, limit)
    /\ sql_before' = [users |-> users, items |-> items]
    /\ UNCHANGED <<users, items>>
    /\ UNCHANGED nonSqlVars

NextSql ==
    \/ \E email \in Emails, password \in {"test"} : CreateUser(email, password)
    \/ \E skip \in {0, 1}, limit \in {1, DefaultLimit} : ReadUsers(skip, limit)
    \/ \E user_id \in UserIds : ReadUser(user_id)
    \/ \E user_id \in UserIds, title \in {"title"} :
          CreateItemForUser(user_id, title, NoneStr)
    \/ \E skip \in {0, 1}, limit \in {1, DefaultLimit} : ReadItems(skip, limit)

SpecSql == Init /\ [][NextSql]_vars

-----------------------------------------------------------------------------
(* SpecDb: /sql requests handled concurrently.  Each request runs the      *)
(* dependency get_db up to its yield, then its handler one statement at a  *)
(* time, then the rest of get_db; steps of different requests interleave.  *)
(* sessions[n] counts the close() calls on the n-th session made.          *)

\* SessionLocal() is called at most MaxSessions times.
MaxSessions == 3

\* db = SessionLocal(): a new session, not closed
SessionLocal(made) == Append(made, 0)

\* get_db closing the session only when the handler returned
get_db_exit_on_return(closes, raised) ==
    IF raised THEN closes ELSE closes + 1

\* get_db after its yield: finally: db.close(), whether the handler
\* returned or raised
get_db_exit(closes, raised) == closes + 1

\* request self moves to r
SqlStepTo(self, r) ==
    /\ sql_reqs' = [Mark(sql_reqs, self) EXCEPT ![self] = r]
    /\ UNCHANGED <<items, sql_resp, sql_before>>
    /\ UNCHANGED nonSqlDbVars

\* the handler is over, by raise or by return; get_db's finally is next
HandlerEnd(r, raised, out) == [r EXCEPT !.pc = "exit", !.raised = raised, !.out = out]

\* POST /sql/users/ arrives
ArriveCreateUser(self, email, password) ==
    /\ self \in DOMAIN sql_reqs => ~InFlight(sql_reqs[self])
    /\ sql_reqs' = NewRequest(sql_reqs, self,
                      [NoSqlRequest EXCEPT !.op = "create_user_", !.pc = "get_db",
                                           !.email = email, !.password = password,
                                           !.out = [SqlIdleResp EXCEPT !.op = "create_user_",
                                                                       !.email = email,
                                                                       !.password = password]])
    /\ UNCHANGED <<sessions, sqlVars>>
    /\ UNCHANGED nonSqlDbVars

\* GET /sql/users/{user_id} arrives
ArriveReadUser(self, user_id) ==
    /\ self \in DOMAIN sql_reqs => ~InFlight(sql_reqs[self])
    /\ sql_reqs' = NewRequest(sql_reqs, self,
                      [NoSqlRequest EXCEPT !.op = "read_user", !.pc = "get_db",
                                           !.user_id = user_id,
                                           !.out = [SqlIdleResp EXCEPT !.op = "read_user",
                                                                       !.user_id = user_id]])
    /\ UNCHANGED <<sessions, sqlVars>>
    /\ UNCHANGED nonSqlDbVars

\* get_db up to its yield: db = SessionLocal()
GetDb(self) ==
    LET r == sql_reqs[self]
    IN  /\ self \in DOMAIN sql_reqs
        /\ r.pc = "get_db"
        /\ Len(sessions) < MaxSessions
        /\ sessions' = SessionLocal(sessions)
        /\ UNCHANGED users
        /\ SqlStepTo(self, [r EXCEPT !.pc = "handler", !.db = Len(sessions) + 1])

\* create_user_: db_user = get_user_by_email(...); if db_user: raise 400
QueryEmail(self) ==
    LET r == sql_reqs[self]
        db_user == get_user_by_email(users, r.email)
    IN  /\ self \in DOMAIN sql_reqs
        /\ r.pc = "handler"
        /\ r.op = "create_user_"
        /\ UNCHANGED <<users, sessions>>
        /\ IF db_user # NoRow
           THEN SqlStepTo(self, HandlerEnd(r, TRUE, SqlHTTPException(r.out, 400, "Email already registered")))
           ELSE SqlStepTo(self, [r EXCEPT !.pc = "create"])

\* create_user_: return create_user(db=db, user=user)
CreateRow(self) ==
    LET r == sql_reqs[self]
        created == create_user(users, r.email, r.password)
    IN  /\ self \in DOMAIN sql_reqs
        /\ r.pc = "create"
        /\ users' = created.users
        /\ UNCHANGED sessions
        /\ IF created.raised # ""
           THEN SqlStepTo(self, HandlerEnd(r, TRUE, SqlHTTPException(r.out, 500, "Internal Server Error")))
           ELSE SqlStepTo(self, HandlerEnd(r, FALSE, [r.out EXCEPT !.status_code = 200,
                                                        !.body_user = UserSchema(created.db_user, items)]))

\* read_user: the whole handler
ReadUserBody(self) ==
    LET r == sql_reqs[self]
        out == read_user(users, items, r.user_id)
    IN  /\ self \in DOMAIN sql_reqs
        /\ r.pc = "handler"
        /\ r.op = "read_user"
        /\ UNCHANGED <<users, sessions>>
        /\ IF out.status_code # 200
           THEN SqlStepTo(self, HandlerEnd(r, TRUE, out))
           ELSE SqlStepTo(self, HandlerEnd(r, FALSE, out))

\* get_db after its yield, and the response leaves
ExitDb(self) ==
    LET r == sql_reqs[self]
    IN  /\ self \in DOMAIN sql_reqs
        /\ r.pc = "exit"
        /\ sessions' = [sessions EXCEPT ![r.db] = get_db_exit(@, r.raised)]
        /\ UNCHANGED users
        /\ SqlStepTo(self, [r EXCEPT !.pc = "done"])

NextDb ==
    \/ \E self \in Requests, email \in Emails, password \in {"test"} :
          ArriveCreateUser(self, email, password)
    \/ \E self \in Requests, user_id \in UserIds : ArriveReadUser(self, user_id)
    \/ \E self \in Requests : GetDb(self)
    \/ \E self \in Requests : QueryEmail(self)
    \/ \E self \in Requests : CreateRow(self)
    \/ \E self \in Requests : ReadUserBody(self)
    \/ \E self \in Requests : ExitDb(self)

SpecDb == Init /\ [][NextDb]_vars

-----------------------------------------------------------------------------
(* The in-memory item store (routers/items_db.py).  A stored item is a     *)
(* dict, a function from some of the field names to values; an ItemDB      *)
(* model is its values on all fields together with the set of fields that  *)
(* were given when it was made (pydantic's __fields_set__).                *)

Fields == {"name", "description", "price", "tax", "tags"}

\* class ItemDB: the default of each field
ItemDBDefaults ==
    [name |-> NoneStr, description |-> NoneStr, price |-> NoneNum,
     tax |-> 105, tags |-> <<>>]

\* ItemDB(**data): the given fields, the others at their defaults
ItemDB(data) ==
    [values |-> [f \in Fields |-> IF f \in DOMAIN data THEN data[f]
                                 ELSE ItemDBDefaults[f]],
     fields_set |-> DOMAIN data]

\* jsonable_encoder(item): a dict of all the fields of the model
jsonable_encoder(item) == item.values

\* item.dict(exclude_unset=True): the fields given when item was made
dict_exclude_unset(item) == [f \in item.fields_set |-> item.values[f]]

\* model.copy(update=update): the model with the fields of update replaced
copy_update(model, update) ==
    [values |-> [f \in Fields |-> IF f \in DOMAIN update THEN update[f]
                                 ELSE model.values[f]],
     fields_set |-> model.fields_set \cup DOMAIN update]

\* items_db[item_id] = value
SetItem(db, item_id, value) ==
    [k \in DOMAIN db \cup {item_id} |-> IF k = item_id THEN value ELSE db[k]]

\* PUT /items_db/{item_id}: the store after the request
update_item_db(db, item_id, item) ==
    SetItem(db, item_id, jsonable_encoder(item))

\* PATCH taking every field of the request, set or not
update_item_db2_all_fields(db, item_id, item) ==
    IF item_id \notin DOMAIN db THEN db
    ELSE LET stored_item_model == ItemDB(db[item_id])
             update_data == item.values
             updated_item == copy_update(stored_item_model, update_data)
         IN  SetItem(db, item_id, jsonable_encoder(updated_item))

\* PATCH /items_db/{item_id}: the store after the request; items_db[item_id]
\* raises KeyError for an item_id the store does not hold, before any
\* assignment
update_item_db2(db, item_id, item) ==
    IF item_id \notin DOMAIN db THEN db
    ELSE LET stored_item_model == ItemDB(db[item_id])
             update_data == dict_exclude_unset(item)
             updated_item == copy_update(stored_item_model, update_data)
         IN  SetItem(db, item_id, jsonable_encoder(updated_item))

\* The item_ids requested: two stored ones (one stored without tax and
\* tags, one with a tax that is not the default) and one not stored.
ItemIds == {"foo", "bar", "qux"}

\* the value a request gives a field
NewValues ==
    [name |-> "New", description |-> "New description", price |-> 100,
     tax |-> 55, tags |-> <<"new">>]

\* The request bodies: every choice of fields among name (default None),
\* tax and tags (defaults 10.5 and []), each chosen field given its new
\* value; description and price are set by no request.
Bodies == {[f \in S |-> NewValues[f]] : S \in SUBSET {"name", "tax", "tags"}}

\* the store after PUT item_id with body is next
Put(item_id, body) == items_db' = update_item_db(items_db, item_id, ItemDB(body))

\* the store after PATCH item_id with body is next
Patch(item_id, body) == items_db' = update_item_db2(items_db, item_id, ItemDB(body))

UpdateItemDb(item_id, body) ==
    /\ Put(item_id, body)
    /\ UNCHANGED nonItemVars

UpdateItemDb2(item_id, body) ==
    /\ Patch(item_id, body)
    /\ UNCHANGED nonItemVars

NextItems ==
    \/ \E item_id \in ItemIds, body \in Bodies : UpdateItemDb(item_id, body)
    \/ \E item_id \in ItemIds, body \in Bodies : UpdateItemDb2(item_id, body)

SpecItems == Init /\ [][NextItems]_vars

-----------------------------------------------------------------------------
(* Properties of the Principal Resolver (checked under Spec).              *)

\* the exchange of this instant went through the dependency chain
Resolved == resp.op \in {"read_users_me", "read_own_items"}

\* the presented token is a JWS signed with the server's key
ServerSigned(token) == token.form = "jws" /\ token.key = SECRET_KEY

\* the clock, in seconds, is past the token's exp claim
ExpiryPassed(token) == token.exp # NoExp /\ token.exp < now * SecondsPerMinute

NoBody(r) ==
    /\ r.access_token = NoToken /\ r.token_type = ""
    /\ r.body_user = User(None) /\ r.owner = ""

AuthorizedOutcome ==
    /\ resp.status_code = 200
    /\ resp.principal # None
    /\ resp.detail = ""

UnauthorizedOutcome ==
    /\ resp.status_code = 401
    /\ resp.principal = None
    /\ NoBody(resp)

ForbiddenOutcome ==
    /\ resp.status_code \in {400, 403}
    /\ resp.detail = "Inactive user"
    /\ resp.principal = None
    /\ NoBody(resp)

\* C1: every resolution of a presented token ends in exactly one of
\* Authorized(principal), Rejected(unauthorized), Rejected(forbidden); it is
\* Authorized only if the token is signed with the server's key, its expiry
\* has not passed, its subject is a username of the store and that account
\* is not disabled, and the principal handed on is the store's record of
\* the subject.
C1_AuthorizedOnlyIfValid ==
    Resolved =>
        /\ \/ AuthorizedOutcome /\ ~UnauthorizedOutcome /\ ~ForbiddenOutcome
           \/ ~AuthorizedOutcome /\ UnauthorizedOutcome /\ ~ForbiddenOutcome
           \/ ~AuthorizedOutcome /\ ~UnauthorizedOutcome /\ ForbiddenOutcome
        /\ AuthorizedOutcome =>
            /\ ServerSigned(resp.token)
            /\ ~ExpiryPassed(resp.token)
            /\ resp.token.sub \in DOMAIN fake_users_db
            /\ ~fake_users_db[resp.token.sub].disabled
            /\ resp.principal = fake_users_db[resp.token.sub]

\* a token the login endpoint issued is presented and authorized
C1_Witness ==
    /\ Resolved
    /\ AuthorizedOutcome
    /\ client_token # NoToken
    /\ resp.token = client_token
    /\ resp.principal.username = "johndoe"

\* Why a token fails before the disabled check, read off the request alone.
FailureReason(token) ==
    IF token.form # "jws" THEN "malformed"
    ELSE IF token.key # SECRET_KEY THEN "bad signature"
    ELSE IF ExpiryPassed(token) THEN "expired"
    ELSE IF token.sub = NoSub THEN "no subject"
    ELSE IF token.sub \notin DOMAIN fake_users_db THEN "unknown subject"
    ELSE "none"

\* what the caller sees of an exchange
Observable(r) ==
    <<r.status_code, r.detail, r.headers, r.access_token, r.token_type,
      r.body_user, r.owner>>

\* C2: requests that fail for different reasons (malformed, bad signature,
\* expired, no subject claim, subject not in the store) get the same
\* observable rejection: 401, one detail message, WWW-Authenticate: Bearer.
C2_RejectionsIndistinguishable ==
    (Resolved /\ FailureReason(resp.token) # "none") =>
        /\ resp.status_code = 401
        /\ resp.detail = "Could not validate credentials"
        /\ resp.headers = "WWW-Authenticate: Bearer"
        /\ NoBody(resp)
        /\ \A other \in PresentableTokens :
              FailureReason(other) \notin {"none", FailureReason(resp.token)} =>
                 /\ Observable(read_users_me(other, now, fake_users_db))
                        = Observable(resp)
                 /\ Observable(read_own_items(other, now, fake_users_db))
                        = Observable(resp)

\* a validly signed, unexpired token for a username the store does not hold
\* is rejected, while a token of each other failure reason can be presented
C2_Witness ==
    /\ Resolved
    /\ FailureReason(resp.token) = "unknown subject"
    /\ resp.status_code = 401
    /\ {FailureReason(t) : t \in PresentableTokens} =
          {"none", "malformed", "bad signature", "expired", "no subject",
           "unknown subject"}

\* C3: a server-signed, unexpired token whose subject is in the store is
\* answered Rejected(forbidden), "Inactive user" with HTTP 400/403, when
\* the account is disabled, and Authorized(principal) when it is active.
C3_DisabledForbiddenActiveAuthorized ==
    (/\ Resolved
     /\ ServerSigned(resp.token)
     /\ ~ExpiryPassed(resp.token)
     /\ resp.token.sub \in DOMAIN fake_users_db) =>
        IF fake_users_db[resp.token.sub].disabled
        THEN ForbiddenOutcome
        ELSE AuthorizedOutcome /\ resp.principal = fake_users_db[resp.token.sub]

\* alice, whose account is disabled, presents the token her login returned
C3_Witness ==
    /\ Resolved
    /\ client_token # NoToken
    /\ resp.token = client_token
    /\ resp.token.sub = "alice"
    /\ ForbiddenOutcome
    /\ resp.status_code = 400

-----------------------------------------------------------------------------
(* Properties of login and of the token's lifetime (checked under Spec).   *)

LoginHandled == resp.op = "login_for_access_token"

\* the submitted form names an account of the store and carries its password
RightCredentials ==
    /\ resp.username \in DOMAIN fake_users_db
    /\ resp.password = SecretPassword

\* C5: login answers 200 with {access_token, token_type: "bearer"}, the
\* token's subject being the authenticated username, when the form
\* authenticates; otherwise 401 with WWW-Authenticate: Bearer and "Incorrect
\* username or password", the same for an unknown username and for a known
\* username with a wrong password.
C5_LoginResponses ==
    LoginHandled =>
        IF RightCredentials
        THEN /\ resp.status_code = 200
             /\ resp.token_type = "bearer"
             /\ ServerSigned(resp.access_token)
             /\ resp.access_token.sub = resp.username
        ELSE /\ resp.status_code = 401
             /\ resp.headers = "WWW-Authenticate: Bearer"
             /\ resp.detail = "Incorrect username or password"
             /\ NoBody(resp)

\* C6: the token create_access_token makes at clock t carries subject =
\* username and expires_at = t + 30 minutes; presented before expires_at it
\* verifies and yields exactly that username, presented after expires_at
\* it fails with Expired.
C6_IssuedTokenLifetime ==
    /\ (LoginHandled /\ resp.status_code = 200) =>
          /\ resp.access_token.form = "jws"
          /\ resp.access_token.key = SECRET_KEY
          /\ resp.access_token.sub = resp.username
          /\ resp.access_token.exp = (now + 30) * 60
    /\ client_token # NoToken =>
          client_token.exp = (issued_at + 30) * 60
    /\ (Resolved /\ client_token # NoToken /\ resp.token = client_token) =>
          /\ now < issued_at + 30 =>
                /\ resp.jwt_error = ""
                /\ resp.lookup = client_token.sub
          /\ now > issued_at + 30 =>
                /\ resp.jwt_error = "Expired"
                /\ resp.status_code = 401

\* a token issued by a login is presented 31 minutes later and is expired
C6_Witness ==
    /\ Resolved
    /\ client_token # NoToken
    /\ resp.token = client_token
    /\ now = issued_at + 31
    /\ resp.jwt_error = "Expired"

\* C7: a correctly signed token is rejected as Expired whenever
\* expires_at <= now, the instant now = expires_at included (stated of the
\* tokens the login endpoint issued).
C7_ExpiredAtBoundary ==
    (/\ Resolved
     /\ client_token # NoToken
     /\ resp.token = client_token
     /\ ServerSigned(resp.token)
     /\ resp.token.exp <= now * SecondsPerMinute) =>
        /\ resp.jwt_error = "Expired"
        /\ resp.status_code = 401

\* C8: a token signed with another key is rejected (BadSignature) even when
\* its expiry is in the future, a server-signed token is rejected when its
\* expiry has passed, and in neither case is the token's subject looked up
\* or a principal returned.
C8_SignatureAndExpiryBothRequired ==
    (Resolved /\ resp.token.form = "jws") =>
        /\ resp.token.key # SECRET_KEY =>
              /\ resp.jwt_error = "BadSignature"
              /\ UnauthorizedOutcome
              /\ resp.lookup = NoLookup
        /\ (resp.token.key = SECRET_KEY /\ ExpiryPassed(resp.token)) =>
              /\ resp.jwt_error = "Expired"
              /\ UnauthorizedOutcome
              /\ resp.lookup = NoLookup

\* a token for johndoe signed with another key, expiring in the future, is
\* rejected
C8_Witness ==
    /\ Resolved
    /\ resp.token.form = "jws"
    /\ resp.token.key = OtherKey
    /\ resp.token.sub = "johndoe"
    /\ resp.token.exp > now * SecondsPerMinute
    /\ resp.jwt_error = "BadSignature"
    /\ resp.lookup = NoLookup

-----------------------------------------------------------------------------
(* Properties of authenticate_user (checked under SpecAuth).               *)

AuthCalled == auth_call.raised # NotCalled

\* C4: for every store, username and password, authenticate_user returns
\* the store's record of the username exactly when the username is in the
\* store and verify_password(password, record.hashed_password) is true, and
\* returns False when the username is absent or the password does not
\* verify (stated of the passwords passlib takes: SecretPassword and the
\* other passwords without a NUL byte and of at most 4096 bytes).
C4_AuthenticateReturnsUserOrFalse ==
    (/\ AuthCalled
     /\ \A i \in 1..Len(auth_call.password.tail) : auth_call.password.tail[i] # "NUL"
     /\ auth_call.password.pad + Len(auth_call.password.tail) <= 4096) =>
        LET present == auth_call.username \in DOMAIN auth_db
            verifies ==
                /\ present
                /\ verify_password(auth_call.password,
                       auth_db[auth_call.username].hashed_password) = "True"
        IN  IF verifies
            THEN /\ auth_call.raised = ""
                 /\ auth_call.ok
                 /\ auth_call.user = auth_db[auth_call.username]
            ELSE /\ auth_call.raised = ""
                 /\ ~auth_call.ok

-----------------------------------------------------------------------------
(* Properties of the password functions (checked under SpecPwd).           *)

HashCalled == pw_hashed.raised # NotCalled
VerifyCalled == pw_verified # NotCalled

\* verify_password ran on the hash the latest get_password_hash returned
VerifiedOwnHash ==
    /\ VerifyCalled
    /\ pw_hashed.raised = ""
    /\ pw_against = pw_hashed.hash

\* a password passlib's bcrypt takes: no NUL byte, at most 4096 bytes
Accepted(p) ==
    /\ \A i \in 1..Len(p.tail) : p.tail[i] # "NUL"
    /\ p.pad + Len(p.tail) <= 4096

\* the byte of password p at position i (1-based), "" past its end
ByteAt(p, i) ==
    IF i <= p.pad THEN "a"
    ELSE IF i <= p.pad + Len(p.tail) THEN p.tail[i - p.pad]
    ELSE ""

\* p1 and p2 agree on their first 72 bytes
SameFirst72(p1, p2) == \A i \in 1..72 : ByteAt(p1, i) = ByteAt(p2, i)

\* C9 as stated: for all p, verify_password(p, hash_password(p)) is true,
\* and for all p1 # p2, verify_password(p1, hash_password(p2)) is false
\* (stated of the passwords the scheme accepts).
C9_AsStated ==
    (VerifiedOwnHash /\ Accepted(pw_try) /\ Accepted(pw_plain)) =>
        /\ pw_try = pw_plain => pw_verified = "True"
        /\ pw_try # pw_plain => pw_verified = "False"

\* C9 (amended): for every password p the scheme accepts (no NUL byte, at
\* most 4096 bytes) hash_password(p) is a hash and verify_password(p,
\* hash_password(p)) is true; for accepted p1, p2, verify_password(p1,
\* hash_password(p2)) is false when their first 72 bytes differ and true
\* when they agree; a password that is not accepted makes both functions
\* raise.
C9_RoundTripUpTo72Bytes ==
    /\ HashCalled => (pw_hashed.raised = "" <=> Accepted(pw_plain))
    /\ VerifiedOwnHash =>
          IF Accepted(pw_try)
          THEN /\ pw_try = pw_plain => pw_verified = "True"
               /\ pw_verified = "True" <=> SameFirst72(pw_try, pw_plain)
               /\ pw_verified = "False" <=> ~SameFirst72(pw_try, pw_plain)
          ELSE pw_verified \notin {"True", "False"}

\* two different accepted passwords longer than 72 bytes, one verified
\* against the hash of the other
C9_Witness ==
    /\ VerifiedOwnHash
    /\ Accepted(pw_try) /\ Accepted(pw_plain)
    /\ pw_try # pw_plain
    /\ SameFirst72(pw_try, pw_plain)
    /\ pw_verified = "True"

\* C10: verify_password returns false, and does not raise, for every
\* stored_hash that is malformed.
C10_MalformedHashReturnsFalse ==
    (VerifyCalled /\ pw_against \in MalformedHashes) => pw_verified = "False"

-----------------------------------------------------------------------------
(* Two hashes of one plaintext (checked under SpecSalt).                   *)

HashedTwice == pw_hashed2.raised # NotCalled

-----------------------------------------------------------------------------
(* The credential store under the endpoints (checked under Spec).          *)

\* C12: after any sequence of logins and token-bearing requests the
\* credential store holds the accounts, hashes and disabled flags it held
\* at the start: no operation of the auth core changes it.
C12_StoreUnchangedByCore == fake_users_db = fake_users_db_initial

\* a login was answered with a token, a request presenting that token was
\* authorized, and the store is what it was
C12_Witness ==
    /\ client_token # NoToken
    /\ resp.op = "read_own_items"
    /\ resp.token = client_token
    /\ resp.status_code = 200
    /\ fake_users_db = fake_users_db_initial

\* C17: the resolver verifies the token, then looks the principal up, then
\* checks the disabled flag, and stops at the first failure: the store is
\* not consulted for a token that fails verification, a request is rejected
\* as forbidden only when its token verified and its principal was found,
\* and an invalid or expired token naming a disabled account is rejected as
\* unauthorized.
C17_VerifyThenLookupThenDisabled ==
    Resolved =>
        /\ (~ServerSigned(resp.token) \/ ExpiryPassed(resp.token)) =>
              resp.lookup = NoLookup /\ UnauthorizedOutcome
        /\ resp.lookup # NoLookup =>
              ServerSigned(resp.token) /\ ~ExpiryPassed(resp.token) /\ resp.lookup = resp.token.sub
        /\ (resp.lookup # NoLookup /\ resp.lookup \notin DOMAIN fake_users_db) =>
              UnauthorizedOutcome
        /\ ForbiddenOutcome =>
              /\ ServerSigned(resp.token) /\ ~ExpiryPassed(resp.token)
              /\ resp.lookup \in DOMAIN fake_users_db
              /\ fake_users_db[resp.lookup].disabled

\* an expired token the server signed for the disabled account is rejected
\* as unauthorized, the store not consulted
C17_Witness ==
    /\ Resolved
    /\ ServerSigned(resp.token)
    /\ ExpiryPassed(resp.token)
    /\ resp.token.sub = "alice"
    /\ fake_users_db["alice"].disabled
    /\ resp.lookup = NoLookup
    /\ UnauthorizedOutcome

\* the form names a disabled account of the store and carries its password
DisabledAccountLogin ==
    /\ LoginHandled
    /\ RightCredentials
    /\ fake_users_db[resp.username].disabled

\* the request presents the token the latest successful login returned, and
\* the account that token names is disabled
DisabledAccountToken ==
    /\ Resolved
    /\ resp.token = client_token
    /\ client_token.sub \in DOMAIN fake_users_db
    /\ fake_users_db[client_token.sub].disabled

\* login answers a disabled account with a token the server signed for it,
\* its expiry ahead of the clock
C20_LoginIgnoresDisabled ==
    DisabledAccountLogin =>
        /\ resp.status_code = 200
        /\ ServerSigned(resp.access_token)
        /\ resp.access_token.sub = resp.username
        /\ resp.access_token.exp # NoExp
        /\ ~ExpiryPassed(resp.access_token)

\* C20 as stated: login issues a validly signed, unexpired token to a
\* disabled account whenever the password verifies, and every protected
\* request made with that token is rejected with "Inactive user" while the
\* account stays disabled.
C20_AsStated ==
    /\ C20_LoginIgnoresDisabled
    /\ DisabledAccountToken =>
          ForbiddenOutcome /\ resp.status_code = 400

\* C20 (amended): login issues a validly signed, unexpired token to a
\* disabled account whenever the password verifies; while the account stays
\* disabled a protected request made with that token is rejected with 400
\* "Inactive user" as long as the token's expiry has not passed, and with
\* the 401 of an invalid token once it has.
C20_DisabledEnforcedOnlyAtResolution ==
    /\ C20_LoginIgnoresDisabled
    /\ DisabledAccountToken =>
          IF ExpiryPassed(client_token)
          THEN UnauthorizedOutcome
          ELSE ForbiddenOutcome /\ resp.status_code = 400

\* the disabled account logged in and its token, not yet expired, was
\* rejected with "Inactive user"
C20_Witness ==
    /\ DisabledAccountToken
    /\ client_token.sub = "alice"
    /\ ~ExpiryPassed(client_token)
    /\ ForbiddenOutcome

-----------------------------------------------------------------------------
(* The resolver beside a writer of the store (checked under SpecStore).    *)

\* the request presents the issued token before its expiry has passed, and
\* the store holds the account the token names
LiveIssuedToken ==
    /\ Resolved
    /\ resp.token = client_token
    /\ ~ExpiryPassed(client_token)
    /\ client_token.sub \in DOMAIN fake_users_db

\* C13: the resolver reads the store on every request and reuses no earlier
\* resolution: a request presenting a still-unexpired, validly signed token
\* is rejected as forbidden when the account is disabled in the store at
\* that request, also when the same token was authorized before the account
\* was disabled, and is authorized as the stored account when it is not.
C13_StoreReadOnEveryRequest ==
    LiveIssuedToken =>
        IF fake_users_db[client_token.sub].disabled
        THEN ForbiddenOutcome
        ELSE /\ AuthorizedOutcome
             /\ resp.principal = UserInDB(fake_users_db[client_token.sub])

\* the token was authorized, the account was disabled afterwards, and the
\* same token, still unexpired, is rejected as forbidden
C13_Witness ==
    /\ LiveIssuedToken
    /\ authorized_before
    /\ client_token.sub = "johndoe"
    /\ fake_users_db["johndoe"].disabled
    /\ ForbiddenOutcome

-----------------------------------------------------------------------------
(* Concurrent requests (checked under SpecConc).                           *)

\* what the request would be answered if its handler ran alone, in one
\* piece, against store db at clock t
AnsweredAlone(r, db) ==
    IF r.op = "login_for_access_token"
    THEN login_for_access_token(r.username, r.password, r.t, db)
    ELSE IF r.op = "read_users_me"
    THEN read_users_me(r.token, r.t, db)
    ELSE read_own_items(r.token, r.t, db)

\* C14: under every interleaving of the steps of concurrent requests, each
\* finished request has the outcome it would have if it ran alone against
\* the same store at the time it read the clock, and the store is the one
\* every request started with.
C14_ConcurrentRequestsIndependent ==
    /\ fake_users_db = fake_users_db_initial
    /\ \A self \in DOMAIN reqs :
          reqs[self].pc = "done" =>
              reqs[self].out = AnsweredAlone(reqs[self], fake_users_db)

\* two requests whose steps interleaved have finished, one authorized as
\* johndoe and one rejected as inactive
C14_Witness ==
    \E a, b \in DOMAIN reqs :
        /\ a # b
        /\ reqs[a].pc = "done" /\ reqs[b].pc = "done"
        /\ reqs[a].overlapped /\ reqs[b].overlapped
        /\ reqs[a].out.status_code = 200
        /\ reqs[a].out.principal # None
        /\ reqs[a].out.principal.username = "johndoe"
        /\ reqs[b].out.status_code = 400
        /\ reqs[b].out.token.sub = "alice"

-----------------------------------------------------------------------------
(* POST /sql/users/ (checked under SpecSql).                               *)

UserCreated == sql_resp.op = "create_user_"

\* a row of users held the submitted email when the request arrived
EmailStored == \E u \in sql_before.users : u.email = sql_resp.email

\* the rows the latest request added to users
AddedUsers == users \ sql_before.users

C16_DuplicateEmailRejected ==
    /\ (UserCreated /\ EmailStored) =>
          /\ sql_resp.status_code = 400
          /\ sql_resp.detail = "Email already registered"
          /\ sql_resp.body_user = NoUserBody
          /\ users = sql_before.users
    /\ \A u, v \in users : u.email = v.email => u = v

\* a second registration of a stored email was answered 400, the table
\* holding the one row of the first
C16_Witness ==
    /\ UserCreated
    /\ sql_resp.status_code = 400
    /\ \E u \in users : u.email = sql_resp.email
    /\ users = sql_before.users

-----------------------------------------------------------------------------
(* Sessions of concurrent /sql requests (checked under SpecDb).            *)

HasSession(r) == r.pc \in {"handler", "create", "exit", "done"}

\* C19: each /sql request gets a session of its own from get_db, shared
\* with no other request; the session is not closed while the handler runs
\* and has been closed exactly once when the request has finished, whether
\* the handler returned or raised (400 for a stored email, 404 for an
\* unknown user).
C19_OwnSessionClosedOnce ==
    /\ \A a, b \in DOMAIN sql_reqs :
          (a # b /\ HasSession(sql_reqs[a]) /\ HasSession(sql_reqs[b])) =>
              sql_reqs[a].db # sql_reqs[b].db
    /\ \A n \in 1..Len(sessions) : sessions[n] <= 1
    /\ \A self \in DOMAIN sql_reqs :
          LET r == sql_reqs[self]
          IN  /\ HasSession(r) => r.db \in 1..Len(sessions)
              /\ r.pc \in {"handler", "create", "exit"} => sessions[r.db] = 0
              /\ r.pc = "done" => sessions[r.db] = 1

\* two requests whose steps interleaved have finished, one whose handler
\* raised and one whose handler returned, each with its own session closed
\* once
C19_Witness ==
    \E a, b \in DOMAIN sql_reqs :
        /\ a # b
        /\ sql_reqs[a].pc = "done" /\ sql_reqs[b].pc = "done"
        /\ sql_reqs[a].overlapped /\ sql_reqs[b].overlapped
        /\ sql_reqs[a].raised /\ sql_reqs[a].out.status_code \in {400, 404}
        /\ ~sql_reqs[b].raised /\ sql_reqs[b].out.status_code = 200
        /\ sql_reqs[a].db # sql_reqs[b].db
        /\ sessions[sql_reqs[a].db] = 1
        /\ sessions[sql_reqs[b].db] = 1

\* POST /sql/users/ request r has been answered
CreateAnswered(r) == r.op = "create_user_" /\ r.pc = "done"

\* C21: of concurrent POST /sql/users/ requests with the same email, which
\* no row held before, exactly one creates a row (200) and every other one
\* is answered 400 "Email already registered"; no two rows of users share an
\* email.  As a state predicate: an answered request either created the row
\* holding its email or was answered 400 with that detail, two requests
\* with one email did not both create, and emails are unique in users.
C21_ConcurrentSameEmailOneCreated ==
    /\ \A self \in DOMAIN sql_reqs :
          LET r == sql_reqs[self]
          IN  CreateAnswered(r) =>
                 \/ /\ r.out.status_code = 200
                    /\ \E u \in users : u.email = r.email /\ u.id = r.out.body_user.id
                 \/ /\ r.out.status_code = 400
                    /\ r.out.detail = "Email already registered"
    /\ \A a, b \in DOMAIN sql_reqs :
          (/\ a # b
           /\ CreateAnswered(sql_reqs[a]) /\ CreateAnswered(sql_reqs[b])
           /\ sql_reqs[a].email = sql_reqs[b].email
           /\ sql_reqs[a].overlapped /\ sql_reqs[b].overlapped) =>
              ~(sql_reqs[a].out.status_code = 200 /\ sql_reqs[b].out.status_code = 200)
    /\ \A u, v \in users : u.email = v.email => u = v

-----------------------------------------------------------------------------
(* PUT and PATCH on the item store (checked under SpecItems).              *)

\* every entry but item_id's is what it was
OthersKept(item_id) ==
    /\ DOMAIN items_db' \ {item_id} = DOMAIN items_db \ {item_id}
    /\ \A k \in DOMAIN items_db \ {item_id} : items_db'[k] = items_db[k]

\* C18: PUT /items_db/{item_id} stores the request body with every field
\* the request did not set at the model default, whatever was stored
\* before; PATCH sets the fields the request set and keeps for every other
\* field the value the stored item had, read as an ItemDB; neither changes
\* the entry of another item_id.
C18_PutReplacesPatchMerges ==
    [][\A item_id \in ItemIds, body \in Bodies :
          /\ Put(item_id, body) =>
                /\ item_id \in DOMAIN items_db'
                /\ DOMAIN items_db'[item_id] = Fields
                /\ \A f \in Fields :
                      items_db'[item_id][f] =
                         IF f \in DOMAIN body THEN body[f] ELSE ItemDBDefaults[f]
                /\ OthersKept(item_id)
          /\ (Patch(item_id, body) /\ item_id \in DOMAIN items_db) =>
                /\ item_id \in DOMAIN items_db'
                /\ DOMAIN items_db'[item_id] = Fields
                /\ \A f \in Fields :
                      items_db'[item_id][f] =
                         IF f \in DOMAIN body THEN body[f]
                         ELSE IF f \in DOMAIN items_db[item_id]
                         THEN items_db[item_id][f]
                         ELSE ItemDBDefaults[f]
                /\ OthersKept(item_id)]_vars

\* bar was replaced by a PUT that set its name (tax back at 10.5,
\* description and price gone), foo was patched in its name alone (price
\* kept), and baz, never requested, is as it was
C18_Witness ==
    /\ items_db["bar"].name = "New"
    /\ items_db["bar"].tax = 105
    /\ items_db["bar"].price = NoneNum
    /\ items_db["foo"].name = "New"
    /\ items_db["foo"].price = 502
    /\ DOMAIN items_db["foo"] = Fields
    /\ items_db["foo"].tax = 105
    /\ items_db["baz"] = items_db_initial["baz"]

====
